---- MODULE Spec2Model ----
(***************************************************************************)
(* The API key pool of alpha_vantage/common/key_manager.py (APIKeyManager) *)
(* as a state machine: the two dictionaries of keys, the current key, the  *)
(* JSON state file, and the operations of the class.                       *)
(*                                                                         *)
(* A Python dict keeps insertion order, and save_api_keys writes           *)
(* list(d.keys()), so a dict is a sequence of entries [key, rem].          *)
(***************************************************************************)
EXTENDS Integers, Sequences, FiniteSets, TLC

VARIABLES
    API_LIMIT,      \* the class attribute API_LIMIT: requests allowed per key
    initialized,    \* APIKeyManager._instance._initialized
    active_keys,    \* self.active_keys  : dict key -> remaining requests
    expired_keys,   \* self.expired_keys : dict key -> remaining requests
    api_key,        \* self.api_key, NoKey while the attribute is not set
    state_file,     \* content of STATE_FILE on disk
    pc,             \* "idle", or "net": make_request waits in requests.get
    last,           \* the last call: [op, exc, log]
    disk_seen,      \* every content STATE_FILE held during the last call
    loaded_keys,    \* the identifiers load_api_keys returned (history)
    observed,       \* what an outside reader of STATE_FILE last read
    tpc,            \* per thread: where its make_request stands
    tnew,           \* per thread: new_count, the local of update_key_usage
    body,           \* the parsed body of the last answer of the provider
    retries,        \* requests.get calls after the first in the last make_request
    url_key,        \* the apikey parameter of the URL the caller holds
    own_instance,   \* the classes that have _instance in their own __dict__
    obj_initialized,\* the objects whose _initialized is True
    constructed     \* the <<class called, object returned>> of every construction

vars == <<API_LIMIT, initialized, active_keys, expired_keys, api_key, state_file, pc,
          last, disk_seen, loaded_keys, observed, tpc, tnew,
          body, retries, url_key, own_instance, obj_initialized, constructed>>

\* the variables of the threads
threads == <<tpc, tnew>>

\* the variables of the request in flight and of its caller
request == <<body, retries, url_key>>

\* the variables of the class hierarchy
classes == <<own_instance, obj_initialized, constructed>>

----------------------------------------------------------------------------
(* Constants of the program and the universe of the model *)

\* API_LIMIT as the class sets it
DefaultLimit == 25

\* the other values of API_LIMIT explored (a subclass or a test may set it)
MaxLimit == 3

\* the key identifiers a state file may list
Keys == {"A", "B", "C"}

NoKey == "none"

\* the threads that call make_request on the one instance at the same time
Threads == {1, 2}

\* the retries of one make_request that are counted
MaxRetries == 3

----------------------------------------------------------------------------
(* Python dict operations on a sequence of entries *)

Entry(k, v) == [key |-> k, rem |-> v]

KeyList(d) == [i \in 1..Len(d) |-> d[i].key]

KeySet(d) == {d[i].key : i \in 1..Len(d)}

Has(d, k) == k \in KeySet(d)

IndexOf(d, k) == CHOOSE i \in 1..Len(d) : d[i].key = k

Get(d, k) == d[IndexOf(d, k)].rem

Put(d, k, v) ==
    IF Has(d, k) THEN [d EXCEPT ![IndexOf(d, k)] = Entry(k, v)]
    ELSE Append(d, Entry(k, v))

Del(d, k) == SelectSeq(d, LAMBDA e : e.key # k)

Values(d) == {d[i].rem : i \in 1..Len(d)}

RECURSIVE FromList(_, _)
FromList(list, v) ==
    IF Len(list) = 0 THEN <<>>
    ELSE Put(FromList(SubSeq(list, 1, Len(list) - 1), v), list[Len(list)], v)

Max(S) == CHOOSE m \in S : \A x \in S : x <= m

----------------------------------------------------------------------------
(* The state file *)

FileOf(act, exp) == [text |-> "json", active_keys |-> act, expired_keys |-> exp]

Truncated == [text |-> "empty", active_keys |-> <<>>, expired_keys |-> <<>>]

NotRead == [text |-> "none", active_keys |-> <<>>, expired_keys |-> <<>>]

----------------------------------------------------------------------------
(* The methods of APIKeyManager, as functions on the object's state.        *)
(* s.exc is the exception the method left with ("none": it returned);       *)
(* s.log lists what the call did, s.seen what STATE_FILE held meanwhile.    *)

Self ==
    [active |-> active_keys, expired |-> expired_keys, api_key |-> api_key,
     file |-> state_file, seen |-> {state_file}, log |-> <<>>, exc |-> "none"]

Fresh ==
    [active |-> <<>>, expired |-> <<>>, api_key |-> NoKey,
     file |-> state_file, seen |-> {state_file}, log |-> <<>>, exc |-> "none"]

Raise(s, e) == [s EXCEPT !.exc = e]

Note(s, what) == [s EXCEPT !.log = Append(@, what)]

\* load_api_keys: json.load, then one dict comprehension per list
load_api_keys(s, api_limit) ==
    IF s.file.text # "json" THEN Raise(s, "JSONDecodeError")
    ELSE [s EXCEPT !.active = FromList(s.file.active_keys, api_limit),
                   !.expired = FromList(s.file.expired_keys, api_limit),
                   !.log = Append(@, "load")]

\* a save that writes the two lists under each other's name
save_api_keys_swapped(s) ==
    LET content == FileOf(KeyList(s.expired), KeyList(s.active))
    IN  [s EXCEPT !.file = content,
                  !.seen = @ \cup {Truncated, content},
                  !.log = Append(@, "save")]

\* save_api_keys: open(STATE_FILE, 'w') empties the file, json.dump fills it
save_api_keys(s) ==
    LET content == FileOf(KeyList(s.active), KeyList(s.expired))
    IN  [s EXCEPT !.file = content,
                  !.seen = @ \cup {Truncated, content},
                  !.log = Append(@, "save")]

\* a swap taken as soon as fewer keys are active than expired
ensure_active_keys_eager(s) ==
    IF Len(s.active) < Len(s.expired) \/ Len(s.active) = 0
    THEN save_api_keys([s EXCEPT !.active = s.expired,
                                 !.expired = s.active,
                                 !.log = Append(@, "swap")])
    ELSE s

\* a swap that fills active_keys and leaves expired_keys as it was
ensure_active_keys_copy(s) ==
    IF Len(s.active) = 0
    THEN save_api_keys([s EXCEPT !.active = s.expired,
                                 !.log = Append(@, "swap")])
    ELSE s

\* a swap that is not written to the state file
ensure_active_keys_no_save(s) ==
    IF Len(s.active) = 0
    THEN [s EXCEPT !.active = s.expired,
                   !.expired = s.active,
                   !.log = Append(@, "swap")]
    ELSE s

\* ensure_active_keys: swap the two dicts when active_keys is empty
ensure_active_keys(s) ==
    IF Len(s.active) = 0
    THEN save_api_keys([s EXCEPT !.active = s.expired,
                                 !.expired = s.active,
                                 !.log = Append(@, "swap")])
    ELSE s

max_keys(d) == {k \in KeySet(d) : Get(d, k) = Max(Values(d))}

\* a selection among all active keys, whatever their counters
set_key_any(s) ==
    LET t == ensure_active_keys(s)
    IN  IF Len(t.active) = 0
        THEN {Raise(t, "RuntimeError: No requests available for any API key")}
        ELSE {[t EXCEPT !.api_key = k, !.log = Append(@, "select")] :
                 k \in KeySet(t.active)}

\* set_key: the set of outcomes, one per random.choice(max_keys)
set_key(s) ==
    LET t == ensure_active_keys(s)
    IN  IF Len(t.active) = 0
        THEN {Raise(t, "RuntimeError: No requests available for any API key")}
        ELSE {[t EXCEPT !.api_key = k, !.log = Append(@, "select")] :
                 k \in max_keys(t.active)}

\* an expiry that forgets the del
remove_key_keeps_active(s) ==
    LET t == [s EXCEPT !.expired = Put(@, s.api_key, API_LIMIT),
                       !.log = Append(@, "remove")]
    IN  IF ~Has(s.active, s.api_key) THEN Raise(t, "KeyError")
        ELSE save_api_keys(t)

\* an expiry that moves the key with the count it had
remove_key_keeps_count(s) ==
    LET t == [s EXCEPT !.expired = Put(@, s.api_key,
                                       IF Has(s.active, s.api_key)
                                       THEN Get(s.active, s.api_key)
                                       ELSE API_LIMIT),
                       !.log = Append(@, "remove")]
    IN  IF ~Has(s.active, s.api_key) THEN Raise(t, "KeyError")
        ELSE save_api_keys([t EXCEPT !.active = Del(@, s.api_key)])

\* an expiry that forgets to put the key into expired_keys
remove_key_drops(s) ==
    LET t == Note(s, "remove")
    IN  IF ~Has(s.active, s.api_key) THEN Raise(t, "KeyError")
        ELSE save_api_keys([t EXCEPT !.active = Del(@, s.api_key)])

\* remove_key: the assignment to expired_keys comes before the del, which
\* raises KeyError when the current key is not in active_keys
remove_key(s) ==
    LET t == [s EXCEPT !.expired = Put(@, s.api_key, API_LIMIT),
                       !.log = Append(@, "remove")]
    IN  IF ~Has(s.active, s.api_key) THEN Raise(t, "KeyError")
        ELSE save_api_keys([t EXCEPT !.active = Del(@, s.api_key)])

\* a decrement that never expires the key
update_key_usage_no_expiry(s) ==
    IF ~Has(s.active, s.api_key) THEN {Raise(s, "KeyError")}
    ELSE {save_api_keys([s EXCEPT !.active = Put(@, s.api_key,
                                                  Get(s.active, s.api_key) - 1),
                                  !.log = Append(@, "count")])}

\* a decrement that tests the count before the decrement
update_key_usage_off_by_one(s) ==
    IF ~Has(s.active, s.api_key) THEN {Raise(s, "KeyError")}
    ELSE LET current_count == Get(s.active, s.api_key)
             new_count == current_count - 1
         IN  IF current_count = 0
             THEN LET t == remove_key(s)
                  IN  IF Len(t.active) # 0 THEN set_key(t)
                      ELSE {Raise(t, "RuntimeError: All API keys exhausted")}
             ELSE {save_api_keys([s EXCEPT !.active = Put(@, s.api_key, new_count),
                                           !.log = Append(@, "count")])}

\* an expiry that leaves the selection on the expired key
update_key_usage_store_keeps_selection(s, new_count) ==
    IF new_count = 0
    THEN LET t == remove_key(s)
         IN  IF t.exc # "none" THEN {t}
             ELSE IF Len(t.active) # 0 THEN {t}
             ELSE {Raise(t, "RuntimeError: All API keys exhausted")}
    ELSE {save_api_keys([s EXCEPT !.active = Put(@, s.api_key, new_count),
                                  !.log = Append(@, "count")])}

\* an exhaustion that goes on to set_key whether or not a key is left
update_key_usage_store_always_selects(s, new_count) ==
    IF new_count = 0
    THEN LET t == remove_key(s)
         IN  IF t.exc # "none" THEN {t} ELSE set_key(t)
    ELSE {save_api_keys([s EXCEPT !.active = Put(@, s.api_key, new_count),
                                  !.log = Append(@, "count")])}

\* a store that goes on to select the key with the most requests left
update_key_usage_store_reselects(s, new_count) ==
    IF new_count = 0
    THEN LET t == remove_key(s)
         IN  IF t.exc # "none" THEN {t}
             ELSE IF Len(t.active) # 0 THEN set_key(t)
             ELSE {Raise(t, "RuntimeError: All API keys exhausted")}
    ELSE set_key(save_api_keys([s EXCEPT !.active = Put(@, s.api_key, new_count),
                                         !.log = Append(@, "count")]))

\* update_key_usage from the test of new_count on, lines 146-156: the set
\* of outcomes (set_key chooses at random)
update_key_usage_store(s, new_count) ==
    IF new_count = 0
    THEN LET t == remove_key(s)
         IN  IF t.exc # "none" THEN {t}
             ELSE IF Len(t.active) # 0 THEN set_key(t)
             ELSE {Raise(t, "RuntimeError: All API keys exhausted")}
    ELSE {save_api_keys([s EXCEPT !.active = Put(@, s.api_key, new_count),
                                  !.log = Append(@, "count")])}

\* update_key_usage: lines 143-144 read the count of the current key, the
\* rest stores the new count or expires the key
update_key_usage(s) ==
    IF ~Has(s.active, s.api_key) THEN {Raise(s, "KeyError")}
    ELSE update_key_usage_store(s, Get(s.active, s.api_key) - 1)

\* what pia.vpn_status() may return
PiaStatus == {"Connected", "Disconnected", "Connecting"}

\* change_ip_address: vpn is what the PIA client does: the status it
\* reports (or "raises" when vpn_status raises) and whether the connect or
\* set_region that follows returns or raises
VpnOutcomes ==
    [status : PiaStatus, call : {"ok", "raises"}] \cup {[status |-> "raises", call |-> "ok"]}

\* the outcome taken where change_ip_address is not reached
VpnQuiet == [status |-> "Connected", call |-> "ok"]

\* a change_ip_address with the test of the status the wrong way round
change_ip_address_inverted(s0, vpn) ==
    LET s == Note(Note(s0, "rotate"), "vpn_status") IN
    IF vpn.status = "raises" THEN Raise(Note(s, "raises"), "VPNConnectionError")
    ELSE LET c == Note(Note(s, vpn.status),
                       IF vpn.status = "Connected" THEN "vpn_connect" ELSE "vpn_region")
         IN  IF vpn.call = "raises" THEN Raise(Note(c, "raises"), "VPNConnectionError")
             ELSE c

\* the log holds the call ("rotate"), vpn_status and the status it
\* returned, the call made on the client, and "raises" when a call of the
\* try block raised
change_ip_address(s0, vpn) ==
    LET s == Note(Note(s0, "rotate"), "vpn_status") IN
    IF vpn.status = "raises" THEN Raise(Note(s, "raises"), "VPNConnectionError")
    ELSE LET c == Note(Note(s, vpn.status),
                       IF vpn.status # "Connected" THEN "vpn_connect" ELSE "vpn_region")
         IN  IF vpn.call = "raises" THEN Raise(Note(c, "raises"), "VPNConnectionError")
             ELSE c

\* a make_request that tests active_keys without ensure_active_keys first
make_request_enter_no_swap(s) ==
    IF Len(s.active) = 0 THEN Raise(s, "RuntimeError: No API keys available")
    ELSE Note(s, "get")

\* a make_request that goes to the network without testing active_keys
make_request_enter_no_test(s) == Note(ensure_active_keys(s), "get")

\* make_request up to requests.get: lines 191-199
make_request_enter(s) ==
    LET t == ensure_active_keys(s)
    IN  IF Len(t.active) = 0 THEN Raise(t, "RuntimeError: No API keys available")
        ELSE Note(t, "get")

\* what the provider answers to requests.get
Responses == {"data", "information", "http_error", "connection_error", "bad_json"}

\* a retry that does not wait
rotate_and_retry_no_wait(u, vpn) ==
    IF u.exc # "none" THEN u
    ELSE LET w == change_ip_address(u, vpn)
         IN  IF w.exc # "none" THEN w
             ELSE make_request_enter(w)

\* a soft-block branch that rotates and then gives up
rotate_and_retry_gives_up(u, vpn) ==
    IF u.exc # "none" THEN u
    ELSE LET w == change_ip_address(u, vpn)
         IN  IF w.exc # "none" THEN w
             ELSE Raise(Note(w, "sleep"), "RuntimeError: Too many retries")

\* a retry that goes on when change_ip_address raised
rotate_and_retry_goes_on(u, vpn) ==
    IF u.exc # "none" THEN u
    ELSE LET w == change_ip_address(u, vpn)
         IN  make_request_enter(Note([w EXCEPT !.exc = "none"], "sleep"))

\* the rest of the soft-block branch once set_key has returned as u:
\* lines 210-212, change_ip_address, time.sleep(8), make_request again
rotate_and_retry(u, vpn) ==
    IF u.exc # "none" THEN u
    ELSE LET w == change_ip_address(u, vpn)
         IN  IF w.exc # "none" THEN w
             ELSE make_request_enter(Note(w, "sleep"))

\* the parsed bodies the provider may send: the keys of the dict and, when
\* 'Information' is one of them, its value
Bodies ==
    {b \in [keys : {{}, {"Note"}, {"Information"}}, info : {"", "limit"}] :
        "Information" \in b.keys \/ b.info = ""}

\* no body was parsed
NoBody == [keys |-> {}, info |-> "no body"]

\* what comes back from requests.get and response.json()
Answers ==
    [kind : {"http_error", "connection_error", "bad_json"}, body : {NoBody}]
        \cup [kind : {"json"}, body : Bodies]

\* a test of the value of 'Information' in place of a test of the key
has_information_truthy(b) == "Information" \in b.keys /\ b.info # ""

\* line 206: 'Information' in data
has_information(b) == "Information" \in b.keys

\* the way make_request goes on an answer
branch(ans) ==
    IF ans.kind # "json" THEN ans.kind
    ELSE IF has_information(ans.body) THEN "information" ELSE "data"

\* the branch taken when 'Information' is in the answer: lines 206-212
soft_block(s, vpn) ==
    LET r == remove_key(s)
    IN  IF r.exc # "none" THEN {r}
        ELSE {rotate_and_retry(u, vpn) : u \in set_key(r)}

\* a make_request that takes an HTTP error for a sign of a used-up key
make_request_response_expires_on_error(s0, resp, vpn) ==
    LET s == Note(s0, resp) IN
    CASE resp = "http_error" -> {Raise(remove_key(s), "HTTPError")}
      [] resp = "connection_error" -> {Raise(s, "ConnectionError")}
      [] resp = "bad_json" -> {Raise(s, "RuntimeError: Invalid JSON response")}
      [] OTHER ->
            IF ~Has(s.active, s.api_key) THEN {Raise(s, "KeyError")}
            ELSE IF resp = "information" THEN soft_block(s, vpn)
            ELSE update_key_usage(s)

\* make_request from the return of requests.get: lines 199-225
make_request_response(s0, resp, vpn) ==
    LET s == Note(s0, resp) IN
    CASE resp = "http_error" -> {Raise(s, "HTTPError")}
      [] resp = "connection_error" -> {Raise(s, "ConnectionError")}
      [] resp = "bad_json" -> {Raise(s, "RuntimeError: Invalid JSON response")}
      [] OTHER ->
            IF ~Has(s.active, s.api_key) THEN {Raise(s, "KeyError")}
            ELSE IF resp = "information" THEN soft_block(s, vpn)
            ELSE update_key_usage(s)

----------------------------------------------------------------------------
(* The state machine *)

\* the object's state after a call that ended as t
Commit(t, op) ==
    /\ active_keys' = t.active
    /\ expired_keys' = t.expired
    /\ api_key' = t.api_key
    /\ state_file' = t.file
    /\ disk_seen' = t.seen
    /\ last' = [op |-> op, exc |-> t.exc, log |-> t.log]

\* state files a user can start from: two lists of keys, no key twice
RECURSIVE Lists(_)
Lists(S) ==
    {<<>>} \cup UNION {{<<k>> \o l : l \in Lists(S \ {k})} : k \in S}

InitialFiles ==
    {FileOf(a, e) : a \in Lists(Keys), e \in Lists(Keys)} 

Range(l) == {l[i] : i \in 1..Len(l)}

InitWith(limits) ==
    /\ API_LIMIT \in limits
    /\ initialized = FALSE
    /\ active_keys = <<>>
    /\ expired_keys = <<>>
    /\ api_key = NoKey
    /\ state_file \in {f \in InitialFiles :
                          Range(f.active_keys) \cap Range(f.expired_keys) = {}}
    /\ pc = "idle"
    /\ last = [op |-> "start", exc |-> "none", log |-> <<>>]
    /\ disk_seen = {state_file}
    /\ loaded_keys = {}
    /\ observed = NotRead
    /\ tpc = [t \in Threads |-> "idle"]
    /\ tnew = [t \in Threads |-> 0]
    /\ body = NoBody
    /\ retries = 0
    /\ url_key = NoKey
    /\ own_instance = {}
    /\ obj_initialized = {}
    /\ constructed = {}

Init == InitWith((1..MaxLimit) \cup {DefaultLimit})

\* the methods called one by one make every combination of counters
\* reachable, so they are explored with the small limits only
InitSmall == InitWith(1..MaxLimit)

\* a constructor that looks for its argument before the swap
init_select_before_swap(s, arg) ==
    LET t == ensure_active_keys(s)
    IN  IF arg # NoKey /\ Has(s.active, arg)
        THEN {[t EXCEPT !.api_key = arg]}
        ELSE set_key(t)

\* __init__ after the load: lines 63-72, the set of outcomes
init_select(s, arg) ==
    LET t == ensure_active_keys(s)
    IN  IF arg # NoKey /\ Has(t.active, arg)
        THEN {[t EXCEPT !.api_key = arg]}
        ELSE set_key(t)

\* the values of the api_key argument that make a difference: none is given,
\* or a key (once initialised, __init__ returns before it reads it)
Arguments == IF initialized THEN {NoKey} ELSE Keys \cup {NoKey}

\* APIKeyManager(api_key=arg): __new__ and __init__
Construct(arg) ==
    /\ pc = "idle"
    /\ IF initialized
       THEN /\ last' = [op |-> "__init__", exc |-> "none", log |-> <<>>]
            /\ UNCHANGED <<API_LIMIT, initialized, active_keys, expired_keys, api_key,
                           state_file, pc, disk_seen, loaded_keys, observed,
                           tpc, tnew, request, classes>>
       ELSE LET l == load_api_keys(Fresh, API_LIMIT)
            IN  /\ \E t \in (IF l.exc # "none" THEN {l} ELSE init_select(l, arg)) :
                      /\ Commit(t, "__init__")
                      /\ initialized' = (t.exc = "none")
                /\ loaded_keys' = KeySet(l.active) \cup KeySet(l.expired)
                /\ UNCHANGED <<API_LIMIT, pc, observed, tpc, tnew, request, classes>>

\* the process ends and a new one starts: the class attribute _instance is
\* None again, the object is gone, the file stays
Restart ==
    /\ initialized' = FALSE
    /\ active_keys' = <<>>
    /\ expired_keys' = <<>>
    /\ api_key' = NoKey
    /\ pc' = "idle"
    /\ last' = [op |-> "start", exc |-> "none", log |-> <<>>]
    /\ disk_seen' = {state_file}
    /\ loaded_keys' = {}
    /\ body' = NoBody
    /\ retries' = 0
    /\ url_key' = NoKey
    /\ UNCHANGED <<API_LIMIT, state_file, observed, tpc, tnew, classes>>

\* make_request(url) up to the network call
MakeRequest ==
    /\ initialized
    /\ pc = "idle"
    /\ LET t == make_request_enter(Self)
       IN  /\ Commit(t, "make_request")
           /\ pc' = IF t.exc = "none" THEN "net" ELSE "idle"
    /\ body' = NoBody
    /\ retries' = 0
    /\ UNCHANGED <<API_LIMIT, initialized, loaded_keys, observed, tpc, tnew, url_key, classes>>

\* requests.get returns or raises, and make_request goes on to its end or
\* to the next network call
Response ==
    /\ pc = "net"
    /\ \E resp \in Responses :
          \E vpn \in (IF resp = "information" THEN VpnOutcomes ELSE {VpnQuiet}) :
          \E t \in make_request_response(Self, resp, vpn) :
              /\ Commit(t, "make_request")
              /\ pc' = IF t.exc = "none" /\ resp = "information" THEN "net" ELSE "idle"
    /\ UNCHANGED <<API_LIMIT, initialized, loaded_keys, observed, tpc, tnew, request, classes>>

Next ==
    \/ \E arg \in Arguments : Construct(arg)
    \/ Restart
    \/ MakeRequest
    \/ Response

Spec == Init /\ [][Next]_vars

----------------------------------------------------------------------------
(* The pool's methods called one by one on the initialised object: they are *)
(* public, and each is an operation of the pool in its own right.           *)

CallEnsureActiveKeys ==
    /\ initialized
    /\ pc = "idle"
    /\ Commit(ensure_active_keys(Self), "ensure_active_keys")
    /\ UNCHANGED <<API_LIMIT, initialized, pc, loaded_keys, observed, tpc, tnew, request, classes>>

CallSetKey ==
    /\ initialized
    /\ pc = "idle"
    /\ \E t \in set_key(Self) : Commit(t, "set_key")
    /\ UNCHANGED <<API_LIMIT, initialized, pc, loaded_keys, observed, tpc, tnew, request, classes>>

CallRemoveKey ==
    /\ initialized
    /\ pc = "idle"
    /\ Commit(remove_key(Self), "remove_key")
    /\ UNCHANGED <<API_LIMIT, initialized, pc, loaded_keys, observed, tpc, tnew, request, classes>>

CallUpdateKeyUsage ==
    /\ initialized
    /\ pc = "idle"
    /\ \E t \in update_key_usage(Self) : Commit(t, "update_key_usage")
    /\ UNCHANGED <<API_LIMIT, initialized, pc, loaded_keys, observed, tpc, tnew, request, classes>>

\* make_request called on the object whose construction failed in set_key:
\* load_api_keys had set the two dicts, and __new__ keeps the object in
\* APIKeyManager._instance
CallMakeRequestOnInstance ==
    /\ ~initialized
    /\ pc = "idle"
    /\ last.op = "__init__"
    /\ last.exc = "RuntimeError: No requests available for any API key"
    /\ LET t == make_request_enter(Self)
       IN  /\ Commit(t, "make_request")
           /\ pc' = IF t.exc = "none" THEN "net" ELSE "idle"
    /\ body' = NoBody
    /\ retries' = 0
    /\ UNCHANGED <<API_LIMIT, initialized, loaded_keys, observed, tpc, tnew, url_key, classes>>

NextOps ==
    \/ Next
    \/ CallEnsureActiveKeys
    \/ CallSetKey
    \/ CallRemoveKey
    \/ CallUpdateKeyUsage
    \/ CallMakeRequestOnInstance

SpecOps == InitSmall /\ [][NextOps]_vars

----------------------------------------------------------------------------
(* The state file as others see it: a reader that opens STATE_FILE while a  *)
(* call runs, and a process that dies in the middle of one.                 *)

\* another process reads the file at some instant of the last call
Reader ==
    /\ \E c \in disk_seen : observed' = c
    /\ UNCHANGED <<API_LIMIT, initialized, active_keys, expired_keys, api_key,
                   state_file, pc, last, disk_seen, loaded_keys, tpc, tnew, request, classes>>

\* the process dies at some instant of the last call; the file stays as it
\* was at that instant
Crash ==
    /\ \E c \in disk_seen : state_file' = c
    /\ initialized' = FALSE
    /\ active_keys' = <<>>
    /\ expired_keys' = <<>>
    /\ api_key' = NoKey
    /\ pc' = "idle"
    /\ last' = [op |-> "start", exc |-> "none", log |-> <<>>]
    /\ disk_seen' = {state_file'}
    /\ loaded_keys' = {}
    /\ body' = NoBody
    /\ retries' = 0
    /\ url_key' = NoKey
    /\ UNCHANGED <<API_LIMIT, observed, tpc, tnew, classes>>

NextIO ==
    \/ Next
    \/ Reader
    \/ Crash

SpecIO == InitSmall /\ [][NextIO]_vars

----------------------------------------------------------------------------
(* The caller of make_request: a fetcher builds the URL with               *)
(* build_url_request, which puts self.api_key in it, and hands it to       *)
(* make_request; the answer is followed down to the parsed body and the    *)
(* retries of one make_request are counted.                                *)

\* build_url_request, api.py lines 55-79: "apikey": self.api_key.  The URL
\* is kept until the next one is built: get_sentiment_data builds its list
\* of URLs before the first request
BuildUrl ==
    /\ initialized
    /\ pc = "idle"
    /\ url_key' = api_key
    /\ UNCHANGED <<API_LIMIT, initialized, active_keys, expired_keys, api_key,
                   state_file, pc, last, disk_seen, loaded_keys, observed,
                   tpc, tnew, body, retries, classes>>

\* requests.get(url) returns or raises and make_request goes on to its end
\* or to the next requests.get(url), with the same url: lines 199-225
Answer ==
    /\ pc = "net"
    /\ \E ans \in Answers :
          LET resp == branch(ans) IN
          \E vpn \in (IF resp = "information" THEN VpnOutcomes ELSE {VpnQuiet}) :
          \E t \in make_request_response(Self, resp, vpn) :
              LET again == t.exc = "none" /\ resp = "information" IN
              /\ Commit(t, "make_request")
              /\ pc' = IF again THEN "net" ELSE "idle"
              /\ body' = ans.body
              /\ retries' = IF again /\ retries < MaxRetries THEN retries + 1 ELSE retries
    /\ UNCHANGED <<API_LIMIT, initialized, loaded_keys, observed, tpc, tnew, url_key, classes>>

NextCaller ==
    \/ \E arg \in Arguments : Construct(arg)
    \/ Restart
    \/ BuildUrl
    \/ MakeRequest
    \/ Answer

SpecCaller == InitSmall /\ [][NextCaller]_vars

----------------------------------------------------------------------------
(* A caller that goes on making requests, each answered with data.  The    *)
(* fairness is that of the run the property is about: the caller always    *)
(* makes its next request and the provider always answers.                 *)

\* requests.get returns data: the lines of Response taken on such an answer
ResponseData ==
    /\ Response
    /\ last'.log[1] = "data"

NextRun ==
    \/ \E arg \in Arguments : Construct(arg)
    \/ MakeRequest
    \/ ResponseData

SpecRun ==
    InitSmall /\ [][NextRun]_vars /\ WF_vars(MakeRequest) /\ WF_vars(ResponseData)

----------------------------------------------------------------------------
(* The classes of the package and the object a construction yields.  An    *)
(* object is named by the class that created it: __new__ creates at most   *)
(* one object per class.  The pool of an object is what Construct models;  *)
(* here the state is which class holds an object of its own, which objects *)
(* went through __init__, and which object each construction returned.     *)

Fetchers ==
    {"EconomicIndicatorsFetcher", "FederalFundsFetcher", "FinancialDataFetcher",
     "NewsSentimentFetcher", "StockPriceFetcher", "TreasuryYieldFetcher"}

Classes == {"APIKeyManager", "AlphaVantageAPI", "TotalDataFetcher"} \cup Fetchers

NoInstance == "None"

\* the method resolution order of a class, the classes of the package only
MRO(cls) ==
    CASE cls = "APIKeyManager" -> <<"APIKeyManager">>
      [] cls = "AlphaVantageAPI" -> <<"AlphaVantageAPI", "APIKeyManager">>
      [] cls \in Fetchers -> <<cls, "AlphaVantageAPI", "APIKeyManager">>
      [] cls = "TotalDataFetcher" ->
            <<"TotalDataFetcher", "EconomicIndicatorsFetcher", "FederalFundsFetcher",
              "FinancialDataFetcher", "NewsSentimentFetcher", "StockPriceFetcher",
              "TreasuryYieldFetcher", "AlphaVantageAPI", "APIKeyManager">>

\* cls._instance as read: the attribute of the first class of the order
\* that has an object of its own, None when none has
class_instance(cls) ==
    LET order == MRO(cls)
        own == {i \in 1..Len(order) : order[i] \in own_instance}
    IN IF own = {} THEN NoInstance
       ELSE order[CHOOSE i \in own : \A j \in own : i <= j]

isinstance(obj, cls) == \E i \in 1..Len(MRO(obj)) : MRO(obj)[i] = cls

\* cls(): __new__ gives the object, and __init__ runs on it when it is an
\* instance of cls (with keys in the state file __init__ returns)
New(cls) ==
    LET found == class_instance(cls)
        obj == IF found = NoInstance THEN cls ELSE found
    IN /\ own_instance' = IF found = NoInstance
                           THEN own_instance \cup {cls} ELSE own_instance
       /\ obj_initialized' = IF isinstance(obj, cls)
                              THEN obj_initialized \cup {obj} ELSE obj_initialized
       /\ constructed' = constructed \cup {<<cls, obj>>}
       /\ UNCHANGED <<API_LIMIT, initialized, active_keys, expired_keys, api_key,
                      state_file, pc, last, disk_seen, loaded_keys, observed,
                      threads, request>>

NextClasses == \E cls \in Classes : New(cls)

\* the pool is not touched: one state file is enough
InitClasses ==
    /\ InitWith({DefaultLimit})
    /\ state_file = FileOf(<<"A", "B", "C">>, <<>>)

SpecClasses == InitClasses /\ [][NextClasses]_vars

----------------------------------------------------------------------------
(* Two fetchers in one process.  The object whose pool the variables hold  *)
(* is the one the requests are made on, a StockPriceFetcher; beside it the *)
(* process constructs a NewsSentimentFetcher.  Neither class is in the     *)
(* other's order, so each gets an object of its own from __new__, and the  *)
(* two objects have STATE_FILE in common.  The sibling makes no request     *)
(* here: of its __init__ the state keeps what it does to the file.         *)

Sibling == "NewsSentimentFetcher"

\* NewsSentimentFetcher(api_key=arg): __new__ and __init__
ConstructSibling(arg) ==
    /\ pc = "idle"
    /\ class_instance(Sibling) \in {NoInstance, Sibling}
    /\ IF Sibling \in obj_initialized
       THEN /\ last' = [op |-> "__init__", exc |-> "none", log |-> <<>>]
            /\ constructed' = constructed \cup {<<Sibling, Sibling>>}
            /\ UNCHANGED <<state_file, disk_seen, own_instance, obj_initialized>>
       ELSE LET l == load_api_keys(Fresh, API_LIMIT)
            IN  \E t \in (IF l.exc # "none" THEN {l} ELSE init_select(l, arg)) :
                   /\ state_file' = t.file
                   /\ disk_seen' = t.seen
                   /\ last' = [op |-> "__init__", exc |-> t.exc, log |-> t.log]
                   /\ own_instance' = own_instance \cup {Sibling}
                   /\ obj_initialized' = IF t.exc = "none"
                                          THEN obj_initialized \cup {Sibling}
                                          ELSE obj_initialized
                   /\ constructed' = IF t.exc = "none"
                                      THEN constructed \cup {<<Sibling, Sibling>>}
                                      ELSE constructed
    /\ UNCHANGED <<API_LIMIT, initialized, active_keys, expired_keys, api_key, pc,
                   loaded_keys, observed, threads, request>>

NextFetchers ==
    \/ \E arg \in Keys \cup {NoKey} : Construct(arg)
    \/ \E arg \in Keys \cup {NoKey} : ConstructSibling(arg)
    \/ MakeRequest
    \/ Response

SpecFetchers == InitSmall /\ [][NextFetchers]_vars

----------------------------------------------------------------------------
(* Two threads call make_request on the one object.  The class takes no   *)
(* lock, so the interpreter may switch threads between any two statements; *)
(* the steps below are whole statements or runs of statements.             *)

\* thread t enters make_request and goes up to requests.get: lines 191-199
ThreadEnter(t) ==
    /\ initialized
    /\ tpc[t] = "idle"
    /\ LET r == make_request_enter(Self)
       IN  /\ Commit(r, "make_request")
           /\ tpc' = [tpc EXCEPT ![t] = IF r.exc = "none" THEN "net" ELSE "idle"]
    /\ UNCHANGED <<API_LIMIT, initialized, pc, loaded_keys, observed, tnew, request, classes>>

\* requests.get of thread t returns or raises: lines 199-206, and for data
\* lines 143-144 of update_key_usage, which read the count into new_count
ThreadAnswer(t) ==
    /\ tpc[t] = "net"
    /\ \E resp \in Responses :
          LET s == Note(Self, resp)
              known == Has(s.active, s.api_key)
              r == CASE resp = "http_error" -> Raise(s, "HTTPError")
                     [] resp = "connection_error" -> Raise(s, "ConnectionError")
                     [] resp = "bad_json" -> Raise(s, "RuntimeError: Invalid JSON response")
                     [] OTHER -> IF known THEN s ELSE Raise(s, "KeyError")
          IN  /\ Commit(r, "make_request")
              /\ tpc' = [tpc EXCEPT ![t] =
                            IF r.exc # "none" THEN "idle"
                            ELSE IF resp = "information" THEN "blocked"
                            ELSE "counted"]
              /\ tnew' = [tnew EXCEPT ![t] =
                            IF r.exc = "none" /\ resp = "data"
                            THEN Get(s.active, s.api_key) - 1 ELSE 0]
    /\ UNCHANGED <<API_LIMIT, initialized, pc, loaded_keys, observed, request, classes>>

\* thread t stores new_count or expires the key: lines 146-156, then the
\* return of make_request
ThreadStore(t) ==
    /\ tpc[t] = "counted"
    /\ \E r \in update_key_usage_store(Self, tnew[t]) : Commit(r, "make_request")
    /\ tpc' = [tpc EXCEPT ![t] = "idle"]
    /\ tnew' = [tnew EXCEPT ![t] = 0]
    /\ UNCHANGED <<API_LIMIT, initialized, pc, loaded_keys, observed, request, classes>>

\* thread t, soft-blocked, expires the current key: line 208
ThreadRemove(t) ==
    /\ tpc[t] = "blocked"
    /\ LET r == remove_key(Self)
       IN  /\ Commit(r, "make_request")
           /\ tpc' = [tpc EXCEPT ![t] = IF r.exc = "none" THEN "removed" ELSE "idle"]
    /\ UNCHANGED <<API_LIMIT, initialized, pc, loaded_keys, observed, tnew, request, classes>>

\* thread t selects another key: line 209
ThreadSelect(t) ==
    /\ tpc[t] = "removed"
    /\ \E r \in set_key(Self) :
          /\ Commit(r, "make_request")
          /\ tpc' = [tpc EXCEPT ![t] = IF r.exc = "none" THEN "selected" ELSE "idle"]
    /\ UNCHANGED <<API_LIMIT, initialized, pc, loaded_keys, observed, tnew, request, classes>>

\* thread t changes its address, sleeps and enters make_request again up
\* to requests.get: lines 210-212 and 191-199
ThreadRetry(t) ==
    /\ tpc[t] = "selected"
    /\ \E vpn \in VpnOutcomes :
          LET r == rotate_and_retry(Self, vpn)
          IN  /\ Commit(r, "make_request")
              /\ tpc' = [tpc EXCEPT ![t] = IF r.exc = "none" THEN "net" ELSE "idle"]
    /\ UNCHANGED <<API_LIMIT, initialized, pc, loaded_keys, observed, tnew, request, classes>>

NextThreads ==
    \/ \E arg \in Arguments : Construct(arg)
    \/ \E t \in Threads : ThreadEnter(t)
    \/ \E t \in Threads : ThreadAnswer(t)
    \/ \E t \in Threads : ThreadStore(t)
    \/ \E t \in Threads : ThreadRemove(t)
    \/ \E t \in Threads : ThreadSelect(t)
    \/ \E t \in Threads : ThreadRetry(t)

SpecThreads == InitSmall /\ [][NextThreads]_vars

----------------------------------------------------------------------------
(* Properties of the pool *)

LogHas(what) == what \in Range(last.log)

\* the keys of d no other key of d has more requests than
Maximal(d) == {k \in KeySet(d) : \A j \in KeySet(d) : Get(d, j) <= Get(d, k)}

\* C1: starting from a state file whose two lists are disjoint, after any
\* sequence of pool operations (construction, ensure_active_keys, set_key,
\* update_key_usage, remove_key, make_request) no key is in both
\* active_keys and expired_keys.
C1_Disjoint == KeySet(active_keys) \cap KeySet(expired_keys) = {}

\* a key has been expired by remove_key while another stayed active
C1_Witness ==
    /\ initialized
    /\ LogHas("remove")
    /\ last.exc = "none"
    /\ Len(active_keys) >= 1
    /\ Len(expired_keys) >= 2

\* C2: in every reachable state every key in expired_keys has remaining
\* API_LIMIT, whether it came from the file, from an exhausted quota or
\* from a soft block.
C2_ExpiredAtLimit == \A i \in 1..Len(expired_keys) : expired_keys[i].rem = API_LIMIT

\* a soft block expired the current key after another key had expired
C2_Witness ==
    /\ last.op = "make_request"
    /\ LogHas("information")
    /\ LogHas("remove")
    /\ Len(expired_keys) >= 2
    /\ Len(active_keys) >= 1

\* C3: in every reachable state every key in active_keys has remaining in
\* 0..API_LIMIT: no sequence of requests drives a counter below zero or
\* above API_LIMIT.
C3_ActiveInRange ==
    \A i \in 1..Len(active_keys) :
        active_keys[i].rem >= 0 /\ active_keys[i].rem <= API_LIMIT

\* a request was counted on a key that stays active with one request left
C3_Witness ==
    /\ last.op = "make_request"
    /\ LogHas("count")
    /\ API_LIMIT >= 3
    /\ Has(active_keys, api_key)
    /\ Get(active_keys, api_key) = 1

\* C4: the keys of active_keys and expired_keys together are the keys that
\* were loaded, after any sequence of operations.
C4_NoKeyLost ==
    initialized => KeySet(active_keys) \cup KeySet(expired_keys) = loaded_keys

\* all keys were expired and swapped back, and one expired again
C4_Witness ==
    /\ initialized
    /\ loaded_keys = Keys
    /\ LogHas("remove")
    /\ LogHas("swap")
    /\ Len(active_keys) = Cardinality(Keys)

\* C5: when set_key returns, the current key is an active key whose
\* remaining is the greatest among the active keys; and each key with the
\* greatest remaining can be the one chosen. ("select" is logged when
\* set_key returns, called by itself or from __init__, update_key_usage or
\* the soft-block branch, none of which touches the pool after it.)
C5_SelectMax ==
    /\ LogHas("select") =>
           /\ Has(active_keys, api_key)
           /\ \A i \in 1..Len(active_keys) :
                  active_keys[i].rem <= Get(active_keys, api_key)
    /\ (initialized /\ pc = "idle") =>
           \A k \in Maximal(IF Len(active_keys) = 0 THEN expired_keys
                            ELSE active_keys) :
               ENABLED (CallSetKey /\ api_key' = k)

\* set_key chose between two keys that tie above a third
C5_Witness ==
    /\ last.op = "set_key"
    /\ last.exc = "none"
    /\ Len(active_keys) = 3
    /\ Cardinality(Maximal(active_keys)) = 2
    /\ api_key \in Maximal(active_keys)

\* where a key is and what it has left, in the given pair of dicts
Place(act, exp, k) ==
    <<Has(act, k), IF Has(act, k) THEN Get(act, k) ELSE 0,
      Has(exp, k), IF Has(exp, k) THEN Get(exp, k) ELSE 0>>

\* a step that is one update_key_usage on a current key that is active:
\* the method called by itself, or the end of a request that got data
ConsumeStep ==
    /\ Has(active_keys, api_key)
    /\ \/ last'.op = "update_key_usage"
       \/ /\ pc = "net"
          /\ last'.op = "make_request"
          /\ Len(last'.log) >= 1
          /\ last'.log[1] = "data"

\* C6: update_key_usage on the current key with remaining r changes that
\* key alone: it stays active with r - 1 when r - 1 is not 0, and moves to
\* expired_keys with API_LIMIT when r - 1 is 0; every other key stays where
\* it is with the count it has.
C6_Consume ==
    [][ConsumeStep =>
         LET r == Get(active_keys, api_key)
         IN  /\ Place(active_keys', expired_keys', api_key) =
                    IF r - 1 # 0 THEN <<TRUE, r - 1, FALSE, 0>>
                    ELSE <<FALSE, 0, TRUE, API_LIMIT>>
             /\ \A k \in Keys \ {api_key} :
                    Place(active_keys', expired_keys', k) =
                        Place(active_keys, expired_keys, k)]_vars

\* update_key_usage expired the current key while two other keys, one of
\* them used, stayed as they were
C6_Witness ==
    /\ last.op = "update_key_usage"
    /\ last.exc = "none"
    /\ LogHas("remove")
    /\ Len(active_keys) = 2
    /\ \E i \in 1..Len(active_keys) : active_keys[i].rem < API_LIMIT

\* a step that begins with ensure_active_keys and does nothing else to the
\* pool: the method called by itself, or make_request up to the network call
EnsureStep ==
    /\ pc = "idle"
    /\ last'.op \in {"ensure_active_keys", "make_request"}

\* C7: ensure_active_keys called with active_keys empty and expired_keys
\* not empty leaves active_keys equal to the former expired_keys, every key
\* at API_LIMIT, and expired_keys empty.
C7_Swap ==
    [][(EnsureStep /\ Len(active_keys) = 0 /\ Len(expired_keys) # 0) =>
         /\ active_keys' = expired_keys
         /\ \A i \in 1..Len(active_keys') : active_keys'[i].rem = API_LIMIT
         /\ expired_keys' = <<>>]_vars

\* ensure_active_keys has swapped a pool of three expired keys
C7_Witness ==
    /\ last.op = "ensure_active_keys"
    /\ LogHas("swap")
    /\ Len(active_keys) = 3
    /\ Len(expired_keys) = 0

\* C8: after construction and after each make_request has returned or
\* raised, the two lists in the state file are the keys of active_keys and
\* of expired_keys.
C8_FileIsMembership ==
    (initialized /\ pc = "idle") =>
        /\ state_file.text = "json"
        /\ state_file.active_keys = KeyList(active_keys)
        /\ state_file.expired_keys = KeyList(expired_keys)

\* a request has ended after an expiry and a swap, both written to the file
C8_Witness ==
    /\ initialized
    /\ pc = "idle"
    /\ last.op = "make_request"
    /\ LogHas("swap")
    /\ LogHas("remove")
    /\ Len(active_keys) >= 2

\* C9: saving the pool and loading it again gives the same keys in
\* active_keys and in expired_keys, in the same order, every one of them
\* with remaining API_LIMIT whatever it had before the save.
C9_RoundTrip ==
    initialized =>
        LET saved == save_api_keys(Self)
            again == load_api_keys([Fresh EXCEPT !.file = saved.file], API_LIMIT)
        IN  /\ again.exc = "none"
            /\ KeyList(again.active) = KeyList(active_keys)
            /\ KeyList(again.expired) = KeyList(expired_keys)
            /\ \A i \in 1..Len(again.active) : again.active[i].rem = API_LIMIT
            /\ \A i \in 1..Len(again.expired) : again.expired[i].rem = API_LIMIT

\* a pool with a used key, two active keys and an expired one
C9_Witness ==
    /\ initialized
    /\ Len(active_keys) = 2
    /\ Len(expired_keys) = 1
    /\ \E i \in 1..Len(active_keys) : active_keys[i].rem < API_LIMIT

\* C10: a reader of STATE_FILE that runs beside the pool, or a process
\* started after a crash at any point, finds in the file the two lists as
\* they were after some completed pool operation, never an empty or
\* half-written file.
C10_ReaderSeesWholeFile ==
    /\ observed.text # "empty"
    /\ state_file.text # "empty"

\* C11: with two threads in make_request, every request that got data
\* takes one off the current key when it stores its count: the key has one
\* less than just before, or is in expired_keys at API_LIMIT when that is
\* 0; so k requests take r to r - k, no count is lost, none goes below 0.
C11_NoLostDecrement ==
    [][\A t \in Threads :
         (tpc[t] = "counted" /\ tpc'[t] = "idle" /\ Has(active_keys, api_key)) =>
            LET r == Get(active_keys, api_key)
            IN  Place(active_keys', expired_keys', api_key) =
                    IF r - 1 # 0 THEN <<TRUE, r - 1, FALSE, 0>>
                    ELSE <<FALSE, 0, TRUE, API_LIMIT>>]_vars

\* C12: under every interleaving of two threads in make_request no key is
\* in both dicts, every expired key has API_LIMIT, the current key is in
\* active_keys whenever no thread is between two statements of the pool
\* (each is outside make_request or waiting for the network), and no
\* request fails with KeyError because the other thread removed the key it
\* was about to count or expire.
C12_ThreadsKeepPool ==
    /\ KeySet(active_keys) \cap KeySet(expired_keys) = {}
    /\ \A i \in 1..Len(expired_keys) : expired_keys[i].rem = API_LIMIT
    /\ (/\ initialized
        /\ \A t \in Threads : tpc[t] \in {"idle", "net"}
        /\ active_keys # <<>>) => Has(active_keys, api_key)
    /\ last.exc # "KeyError"

----------------------------------------------------------------------------
(* The scenarios of make_request *)

\* a step that is the end of a request whose answer was resp
AnswerStep(resp) ==
    /\ pc = "net"
    /\ last'.op = "make_request"
    /\ Len(last'.log) >= 1
    /\ last'.log[1] = resp

\* the pool of scenario A: API_LIMIT is 2 and the keys are A and B
PoolA(act, exp) == API_LIMIT = 2 /\ active_keys = act /\ expired_keys = exp

AllExhausted == "RuntimeError: All API keys exhausted"

C14_ScenarioB ==
    [][/\ (/\ pc = "idle"
           /\ last'.op = "make_request"
           /\ active_keys = <<>>
           /\ expired_keys # <<>>) =>
              /\ active_keys' = expired_keys
              /\ \A i \in 1..Len(active_keys') : active_keys'[i].rem = API_LIMIT
              /\ expired_keys' = <<>>
              /\ Has(active_keys', api_key')
              /\ last'.log = <<"swap", "save", "get">>
              /\ pc' = "net"
       /\ (/\ AnswerStep("data")
           /\ last.log = <<"swap", "save", "get">>
           /\ (API_LIMIT > 1 \/ Len(active_keys) > 1)) =>
              /\ last'.exc = "none"
              /\ pc' = "idle"
              /\ KeySet(active_keys') \cup KeySet(expired_keys') = KeySet(active_keys)
              /\ Place(active_keys', expired_keys', api_key) =
                    IF API_LIMIT > 1 THEN <<TRUE, API_LIMIT - 1, FALSE, 0>>
                    ELSE <<FALSE, 0, TRUE, API_LIMIT>>]_vars

\* the request after scenario A's failure has swapped A and B back and is
\* at the network call
C14_Witness ==
    /\ PoolA(<<Entry("A", 2), Entry("B", 2)>>, <<>>)
    /\ pc = "net"
    /\ last.op = "make_request"
    /\ last.log = <<"swap", "save", "get">>
    /\ api_key = "B"

\* C15: when a request is answered with the soft-block marker, the key
\* that was current for that attempt is in expired_keys with API_LIMIT, and
\* not in active_keys, once the step is over (the retry issued or the
\* request failed), and no key has less left than before the answer; for
\* every pool, the one whose only active key is the blocked key included.
C15_BlockedKeyExpired ==
    [][(AnswerStep("information") /\ Has(active_keys, api_key)) =>
         /\ Place(active_keys', expired_keys', api_key) = <<FALSE, 0, TRUE, API_LIMIT>>
         /\ \A k \in KeySet(active_keys) \ {api_key} :
               Place(active_keys', expired_keys', k) =
                   Place(active_keys, expired_keys, k)]_vars

\* C17: no swap happens after the network call of a request: when the
\* expiry on a soft block leaves active_keys empty, the request fails with
\* "All API keys exhausted", active_keys stays empty and nothing is retried.
C17_NoSwapInsideCall ==
    [][(pc = "net" /\ last'.op = "make_request") =>
         /\ "swap" \notin Range(last'.log)
         /\ (/\ last'.log[1] = "information"
             /\ KeySet(active_keys) = {api_key}) =>
                /\ last'.exc = AllExhausted
                /\ active_keys' = <<>>
                /\ pc' = "idle"]_vars

\* how many times the last call did what
Times(what) == Cardinality({i \in 1..Len(last.log) : last.log[i] = what})

\* where in the last call what was done
When(what) == CHOOSE i \in 1..Len(last.log) : last.log[i] = what

\* C16: the end of a request answered with the soft-block marker does, in
\* this order, one remove_key of the current key, one change_ip_address,
\* one time.sleep and one further requests.get (the last two when
\* change_ip_address returned; when it raised, the request ends there with
\* VPNConnectionError); no other call, and no other end of a request
\* (data, exhaustion, HTTP or connection error, a body that is not JSON),
\* calls change_ip_address.
C16_SoftBlockOrder ==
    IF last.op = "make_request" /\ Len(last.log) >= 1 /\ last.log[1] = "information"
    THEN /\ Times("remove") = 1
         /\ Times("rotate") = 1
         /\ When("remove") < When("rotate")
         /\ Times("vpn_connect") + Times("vpn_region") <= 1
         /\ IF last.exc = "none"
            THEN /\ Times("sleep") = 1
                 /\ Times("get") = 1
                 /\ When("rotate") < When("sleep")
                 /\ When("sleep") < When("get")
                 /\ pc = "net"
            ELSE /\ last.exc = "VPNConnectionError"
                 /\ Times("sleep") = 0
                 /\ Times("get") = 0
                 /\ pc = "idle"
    ELSE /\ Times("rotate") = 0
         /\ Times("vpn_connect") + Times("vpn_region") = 0
         /\ Times("sleep") = 0

\* a soft block has expired the current key, changed the region and gone
\* back to the network with another key
C16_Witness ==
    /\ last.op = "make_request"
    /\ last.log[1] = "information"
    /\ last.exc = "none"
    /\ LogHas("vpn_region")
    /\ pc = "net"
    /\ Len(expired_keys) >= 1

\* C18: when the count at the end of a request that got data takes the
\* last active key to 0, the request raises "All API keys exhausted" and
\* returns nothing, active_keys is left empty and every key of the pool is
\* in expired_keys at API_LIMIT; every other request that got data returns.
C18_ExhaustedOnCommit ==
    [][(AnswerStep("data") /\ Has(active_keys, api_key)) =>
         IF KeySet(active_keys) = {api_key} /\ Get(active_keys, api_key) = 1
         THEN /\ last'.exc = AllExhausted
              /\ active_keys' = <<>>
              /\ KeySet(expired_keys') = KeySet(active_keys) \cup KeySet(expired_keys)
              /\ \A i \in 1..Len(expired_keys') : expired_keys'[i].rem = API_LIMIT
              /\ pc' = "idle"
         ELSE /\ last'.exc = "none"
              /\ active_keys' # <<>>
              /\ pc' = "idle"]_vars

\* the last of three keys has been used up by a request that got data
C18_Witness ==
    /\ last.op = "make_request"
    /\ last.log[1] = "data"
    /\ last.exc = AllExhausted
    /\ active_keys = <<>>
    /\ Len(expired_keys) = 3
    /\ API_LIMIT > 1

\* C19: when requests.get raises (connection error), the status is not 2xx
\* or the body is not JSON, the request raises at once: nothing else is
\* done (no expiry, no count, no selection, no change_ip_address, no sleep,
\* no second requests.get) and active_keys, expired_keys and api_key are
\* what they were before the network call.
C19_ErrorLeavesPool ==
    [][(\E resp \in {"http_error", "connection_error", "bad_json"} : AnswerStep(resp)) =>
         /\ last'.exc = CASE last'.log[1] = "http_error" -> "HTTPError"
                          [] last'.log[1] = "connection_error" -> "ConnectionError"
                          [] OTHER -> "RuntimeError: Invalid JSON response"
         /\ Len(last'.log) = 1
         /\ pc' = "idle"
         /\ active_keys' = active_keys
         /\ expired_keys' = expired_keys
         /\ api_key' = api_key
         /\ state_file' = state_file]_vars

\* a request ended with HTTPError while a used key and an expired key were
\* in the pool
C19_Witness ==
    /\ last.op = "make_request"
    /\ last.log = <<"http_error">>
    /\ last.exc = "HTTPError"
    /\ Len(expired_keys) >= 1
    /\ \E i \in 1..Len(active_keys) : active_keys[i].rem < API_LIMIT

\* C20: with no key in the state file (active_keys and expired_keys both
\* empty), the selection made by the constructor and a make_request on the
\* object raise RuntimeError, and neither calls requests.get or
\* change_ip_address.
C20_NoKeysConfigured ==
    (/\ loaded_keys = {}
     /\ Len(active_keys) + Len(expired_keys) = 0
     /\ last.op \in {"__init__", "make_request"}) =>
        /\ last.exc = IF last.op = "__init__"
                      THEN "RuntimeError: No requests available for any API key"
                      ELSE "RuntimeError: No API keys available"
        /\ Times("get") = 0
        /\ Times("rotate") = 0
        /\ Times("select") = 0
        /\ pc = "idle"
        /\ ~initialized

\* make_request has been called on the object of a pool without keys
C20_Witness ==
    /\ last.op = "make_request"
    /\ last.exc = "RuntimeError: No API keys available"
    /\ Len(active_keys) + Len(expired_keys) = 0
    /\ state_file = FileOf(<<>>, <<>>)

----------------------------------------------------------------------------
(* The rotation of the address and the retry *)

\* the last call did a and later b
Before(a, b) ==
    \E i, j \in 1..Len(last.log) : i < j /\ last.log[i] = a /\ last.log[j] = b

\* C21: when vpn_status, connect or set_region raises during the handling
\* of a soft block, make_request raises VPNConnectionError and the request
\* is over: no sleep and no further requests.get.
C21_RotationFailureAborts ==
    LogHas("raises") =>
        /\ last.op = "make_request"
        /\ last.log[1] = "information"
        /\ last.exc = "VPNConnectionError"
        /\ Times("sleep") = 0
        /\ Times("get") = 0
        /\ pc = "idle"

\* connect raised on a client that was not connected, after a soft block
C21_Witness ==
    /\ last.exc = "VPNConnectionError"
    /\ LogHas("Disconnected")
    /\ LogHas("vpn_connect")
    /\ LogHas("raises")
    /\ Len(expired_keys) >= 1

\* C30: a change_ip_address in which vpn_status returned calls connect, and
\* not set_region, when the status is not 'Connected', and set_region, and
\* not connect, when it is: one of the two, never both, never neither.
\* (When vpn_status itself raises, no status is known and neither is
\* called.)
C30_ConnectOrRegion ==
    /\ Times("rotate") <= 1
    /\ Times("rotate") = Times("vpn_status")
    /\ Times("rotate") = 1 =>
          LET returned == {st \in PiaStatus : LogHas(st)}
          IN  IF returned = {}
              THEN /\ LogHas("raises")
                   /\ Times("vpn_connect") + Times("vpn_region") = 0
              ELSE /\ Cardinality(returned) = 1
                   /\ Times("vpn_connect") = IF "Connected" \in returned THEN 0 ELSE 1
                   /\ Times("vpn_region") = IF "Connected" \in returned THEN 1 ELSE 0
                   /\ Before("vpn_status", "vpn_connect") \/ Before("vpn_status", "vpn_region")

\* a rotation found the client connecting and called connect
C30_Witness ==
    /\ LogHas("rotate")
    /\ LogHas("Connecting")
    /\ LogHas("vpn_connect")
    /\ last.exc = "none"
    /\ pc = "net"

\* C24: after the construction and after every make_request, returned or
\* raised, the current key api_key is a key of active_keys whenever
\* active_keys is not empty.
C24_SelectionIsActive ==
    (initialized /\ pc = "idle" /\ active_keys # <<>>) => Has(active_keys, api_key)

\* a request has used up the current key and another key was selected
C24_Witness ==
    /\ initialized
    /\ pc = "idle"
    /\ last.op = "make_request"
    /\ last.log[1] = "data"
    /\ LogHas("remove")
    /\ LogHas("select")
    /\ Len(active_keys) = 2
    /\ Has(active_keys, api_key)

\* the request in flight can be sent to one more requests.get: there is an
\* outcome of make_request on a soft-block answer, with a rotation that
\* succeeds, that ends at requests.get
CanRetry ==
    \E vpn \in VpnOutcomes :
        \E t \in make_request_response(Self, branch([kind |-> "json",
                     body |-> [keys |-> {"Information"}, info |-> "limit"]]), vpn) :
            /\ t.exc = "none"
            /\ t.log[Len(t.log)] = "get"

\* C22: nothing bounds the retries of one make_request: at every
\* requests.get, the first or the n-th of the request, a soft-block answer
\* with a rotation that succeeds leads to one more requests.get of the same
\* request, and such a step never returns or raises; so a provider that
\* always answers with the marker keeps one make_request retrying for ever.
C22_RetryUnbounded ==
    /\ pc = "net" => CanRetry
    /\ (/\ last.op = "make_request"
        /\ Len(last.log) >= 1
        /\ last.log[1] = "information"
        /\ last.exc = "none") => (pc = "net" /\ last.log[Len(last.log)] = "get")

\* one make_request is at its requests.get after MaxRetries retries
C22_Witness ==
    /\ pc = "net"
    /\ retries = MaxRetries
    /\ last.log[1] = "information"
    /\ initialized

\* C29: an answer whose parsed body has the key 'Information', whatever
\* its value (the empty string too), takes the soft-block branch (expiry
\* of the current key, change_ip_address, no count); an answer without
\* that key does no forced expiry, no rotation and no retry and goes to
\* update_key_usage, which takes one off the current key.
C29_MarkerIsKey ==
    [][(/\ pc = "net"
        /\ last'.op = "make_request"
        /\ body' # NoBody
        /\ Has(active_keys, api_key)) =>
         LET did == Range(last'.log) IN
         IF "Information" \in body'.keys
         THEN /\ last'.log[1] = "information"
              /\ {"remove", "rotate"} \subseteq did
              /\ "count" \notin did
              /\ last'.exc = "none" => (pc' = "net" /\ "get" \in did)
         ELSE /\ last'.log[1] = "data"
              /\ did \cap {"rotate", "sleep", "get", "swap"} = {}
              /\ pc' = "idle"
              /\ LET r == Get(active_keys, api_key)
                 IN  Place(active_keys', expired_keys', api_key) =
                        IF r - 1 # 0 THEN <<TRUE, r - 1, FALSE, 0>>
                        ELSE <<FALSE, 0, TRUE, API_LIMIT>>]_vars

\* an answer {'Information': ''} has sent the request to its retry
C29_Witness ==
    /\ body = [keys |-> {"Information"}, info |-> ""]
    /\ last.op = "make_request"
    /\ LogHas("remove")
    /\ LogHas("rotate")
    /\ last.exc = "none"
    /\ pc = "net"

----------------------------------------------------------------------------
(* The key in the URL *)

\* C25: at every requests.get of a make_request, the first and each retry
\* after a soft block, for a URL built just before the request or earlier
\* as one of a list, the apikey parameter of the URL is the current key.
C25_UrlCarriesSelection ==
    (pc = "net" /\ url_key # NoKey) => url_key = api_key

\* C26: a request that got data takes one off the key that was sent in its
\* URL and off no other key.
C26_ChargedKeyWasSent ==
    [][(AnswerStep("data") /\ url_key # NoKey) =>
         \A k \in Keys :
             Place(active_keys', expired_keys', k) # Place(active_keys, expired_keys, k)
                 => k = url_key]_vars

----------------------------------------------------------------------------
(* The life of one key *)

\* the places of a key: active with r left, expired with API_LIMIT
ActiveAt(r) == <<TRUE, r, FALSE, 0>>

ExpiredAtLimit == <<FALSE, 0, TRUE, API_LIMIT>>

\* a step of the running pool: any call but the load of the state file
PoolStep == last'.op \notin {"__init__", "start"}

\* C27: in every call on the running pool a key stays where it is with
\* the count it has, or makes one of four moves: active with r to active
\* with r - 1 (a count), active with 1 to expired with API_LIMIT (the
\* count that uses it up), active to expired with API_LIMIT (remove_key),
\* expired to active with API_LIMIT (a swap).  A key leaves expired_keys
\* through a swap only, and the swap is taken with active_keys empty: at
\* the start of the call, or after the remove_key of the same call has
\* taken the last active key (then that key makes two moves in the call,
\* active to expired to active with API_LIMIT).
C27_KeyStateMachine ==
    [][PoolStep =>
         \A k \in Keys :
            LET p == Place(active_keys, expired_keys, k)
                q == Place(active_keys', expired_keys', k)
                did == Range(last'.log)
                emptied == KeySet(active_keys) = {api_key} /\ Before("remove", "swap")'
                swapped == "swap" \in did /\ (active_keys = <<>> \/ emptied)
            IN  \/ q = p
                \/ /\ p[1] /\ p[2] > 1
                   /\ q = ActiveAt(p[2] - 1)
                   /\ k = api_key
                   /\ "count" \in did
                \/ /\ p[1]
                   /\ q = ExpiredAtLimit
                   /\ k = api_key
                   /\ "remove" \in did
                \/ /\ p = ExpiredAtLimit
                   /\ q = ActiveAt(API_LIMIT)
                   /\ swapped
                \/ /\ p[1]
                   /\ q = ActiveAt(API_LIMIT)
                   /\ k = api_key
                   /\ swapped /\ emptied]_vars

\* an expired key came back through the swap of a call that began with
\* active_keys empty, while the pool had three keys
C27_Witness ==
    /\ last.op \in {"make_request", "ensure_active_keys", "set_key"}
    /\ Len(last.log) >= 1
    /\ last.log[1] = "swap"
    /\ Len(active_keys) = 3
    /\ expired_keys = <<>>
    /\ API_LIMIT > 1

----------------------------------------------------------------------------
(* No key is left out *)

\* the last call was a request that got data and was taken off key k
Used(k) ==
    /\ last.op = "make_request"
    /\ Len(last.log) >= 1
    /\ last.log[1] = "data"
    /\ k = IF ~LogHas("remove") THEN api_key
           ELSE IF expired_keys = <<>> THEN NoKey
           ELSE expired_keys[Len(expired_keys)].key

\* C28: in a run of requests that all get data, the failures with "All API
\* keys exhausted" included, every key of the state file is used again and
\* again: from every state of the run a request taken off the key follows.
C28_NoStarvation ==
    \A k \in Keys : (initialized /\ k \in loaded_keys) ~> Used(k)

\* the third key of the pool is in use after the two others were used up
C28_Witness ==
    /\ initialized
    /\ loaded_keys = Keys
    /\ Len(expired_keys) = 2
    /\ API_LIMIT > 1
    /\ \E k \in Keys : Used(k) /\ Has(active_keys, k)

----------------------------------------------------------------------------
(* One object for all classes *)

\* the objects the constructions have returned
Instances == {p[2] : p \in constructed}

\* C23: constructing APIKeyManager or any of its subclasses, in any order
\* and any number of times, always yields the one same object.
C23_OneInstance == Cardinality(Instances) <= 1

----------------------------------------------------------------------------
(* No active key at zero *)

\* C34: between the calls no key of active_keys has remaining 0: every
\* active counter is in 1..API_LIMIT, as load_api_keys starts the keys at
\* API_LIMIT and update_key_usage moves a key whose count would be 0 to
\* expired_keys instead of storing the 0.
C34_ActiveAtLeastOne ==
    pc = "idle" =>
        \A i \in 1..Len(active_keys) :
            active_keys[i].rem >= 1 /\ active_keys[i].rem <= API_LIMIT

\* a request took the last unit of its key: the key went to expired_keys
\* and the keys left active are all above 0
C34_Witness ==
    /\ pc = "idle"
    /\ last.op = "make_request"
    /\ Len(last.log) >= 1
    /\ last.log[1] = "data"
    /\ LogHas("remove")
    /\ API_LIMIT >= 2
    /\ Len(active_keys) >= 1
    /\ Len(expired_keys) >= 1

----------------------------------------------------------------------------
(* The selection stays *)

\* C33: over the requests the current key changes only in a step that
\* expires it: the answer was the soft-block marker, or the answer was data
\* and the key had one request left.  A request that got data and leaves
\* the key with one or more requests keeps it, and the next request starts
\* with it, also when another active key has more requests left.
C33_SelectionIsSticky ==
    [][(initialized /\ last'.op = "make_request") =>
         /\ api_key' # api_key =>
               \/ AnswerStep("information")
               \/ /\ AnswerStep("data")
                  /\ Has(active_keys, api_key)
                  /\ Get(active_keys, api_key) = 1
         /\ (AnswerStep("data") /\ Has(active_keys, api_key)
                                /\ Get(active_keys, api_key) > 1) =>
               /\ api_key' = api_key
               /\ Has(active_keys', api_key)
         /\ pc = "idle" => api_key' = api_key]_vars

\* a request is on its way with the current key while another active key
\* has more requests left
C33_Witness ==
    /\ initialized
    /\ pc = "net"
    /\ last.op = "make_request"
    /\ Has(active_keys, api_key)
    /\ \E i \in 1..Len(active_keys) :
          active_keys[i].rem > Get(active_keys, api_key)

----------------------------------------------------------------------------
(* The api_key argument of the constructor *)

\* C32: a construction that initialises the object selects its api_key
\* argument when one is given and it is in active_keys once __init__ has
\* loaded the file and made its swap; without an argument, or with one that
\* is not in active_keys, it selects a key that set_key chooses, one of the
\* active keys that have the most requests left.
C32_ArgumentSelects ==
    [][\A arg \in Keys \cup {NoKey} :
          (~initialized /\ Construct(arg) /\ initialized') =>
              IF arg # NoKey /\ Has(active_keys', arg)
              THEN api_key' = arg /\ "select" \notin Range(last'.log)
              ELSE api_key' \in Maximal(active_keys') /\ "select" \in Range(last'.log)]_vars

\* the constructor found every key expired, made them active and took its
\* argument: set_key was not called
C32_Witness ==
    /\ initialized
    /\ last.op = "__init__"
    /\ LogHas("swap")
    /\ ~LogHas("select")
    /\ Has(active_keys, api_key)
    /\ Len(active_keys) >= 2

----------------------------------------------------------------------------
(* The pool is loaded once *)

\* a step that is a construction in a process whose manager is initialised
Reconstruction == initialized /\ last'.op = "__init__"

\* C31: a construction of the manager after it is initialised, with an
\* api_key argument or without, changes neither active_keys, expired_keys
\* and their counters, nor the current key, nor the state file: the pool is
\* loaded from the file once.
C31_LoadedOnce ==
    [][Reconstruction =>
          UNCHANGED <<active_keys, expired_keys, api_key, state_file>>]_vars

\* the part that holds: the class of the initialised object constructed
\* again, with any argument, returns at the test of _initialized
SameClassAgain ==
    [][\A arg \in Keys \cup {NoKey} :
          (initialized /\ Construct(arg)) =>
              /\ UNCHANGED <<active_keys, expired_keys, api_key, state_file, disk_seen>>
              /\ last'.log = <<>>]_vars

====
